---- MODULE Spec2Model ----
(***************************************************************************)
(* The CandlestickChart component of krakenbot's client                    *)
(* (src/unnamed/part_001, lines 268-776): the candle store                 *)
(* (historicalData), the live OHLCV channel (wsRef), the snapshot fetch    *)
(* and the composed dataset (baseChartData, chartData) with its indicator  *)
(* engine (ema, rsi, sma, Bollinger bands), toggles and trade markers.     *)
(*                                                                         *)
(* One action is one event callback handled to completion, together with   *)
(* the render and the effects React runs after it.                         *)
(***************************************************************************)
EXTENDS Integers, Sequences, FiniteSets, TLC

(* ------------------------------ bounds -------------------------------- *)

\* How many times the fetch/connect pair is started (mount, selection
\* changes, manual retries) in one run.
MaxStarts == 2

\* How many 'ohlcv_update' messages are handled after one snapshot install.
MaxUpdates == 1

\* The close sequences tried in full: at most MaxLen prices in 1..MaxClose.
MaxLen == 3
MaxClose == 3

\* How many times each of the Start Bot and Stop Bot buttons is clicked.
MaxBotClicks == 2

(* ------------------------- program constants -------------------------- *)

\* "Keep only last 100 candles": if (newData.length > 100) newData.shift()
N == 100

\* The (exchange, symbol, timeframe) selections the user picks from.
Selections == {"kraken ADA/USD 5m", "kraken BTC/USD 1h"}

\* App's useState('kraken'), useState('ADA/USD'), useState('5m')
DefaultSelection == "kraken ADA/USD 5m"

\* useState(null) / wsRef = useRef(null): an optional value is a sequence of
\* length 0 (null) or 1.
Null == <<>>
Some(x) == <<x>>

NoError == "null"
FetchFailed == "Failed to fetch historical data"
SocketError == "WebSocket connection error"

(* ------------------------------ candles ------------------------------- *)

\* A candle as the server sends it; v stands for the price/volume payload.
Candle(t, v) ==
  [timestamp |-> t, open |-> v, high |-> v, low |-> v, close |-> v, volume |-> v]

\* The object the 'ohlcv_update' branch builds from a message that carries
\* none of the candle fields: every field is undefined (written 0; a real
\* timestamp is a positive epoch and 0 is falsy in JavaScript as undefined is).
UndefinedCandle == Candle(0, 0)

\* A time-ordered snapshot of k candles, as the server builds it.
Snapshot(k) == [i \in 1..k |-> Candle(i, 1)]

(* Inputs of StoreSpec, which follows one channel and the store at capacity. *)

\* Lengths of the snapshots an 'initial_ohlcv' message carries: the channel
\* URL names no limit.
SnapshotLens == {0, N, N + 1}

\* Lengths of the snapshots the fetch returns: the request carries limit=100,
\* and a response without data installs [].
FetchLens == {0, N}

\* Timestamps of the live updates: the first two candles', the N-th candle's,
\* and the next two.
UpdateTimestamps == {1, 2, N, N + 1, N + 2}

(* Inputs of Spec, which follows every interleaving of the controller's     *)
(* events over short snapshots.                                             *)

ShortSnapshotLens == {0, 2}

ShortUpdateTimestamps == {2, 3}

(* ------------------------------- state -------------------------------- *)

VARIABLES
  selection,       \* the props (exchange, symbol, timeframe)
  phase,           \* "init", "mounted", "unmounted", "crashed"
  historicalData,  \* the candle store
  baseChartData,   \* Null or Some([labels, datasets])
  chartData,       \* Null or Some([labels, datasets]): the composed dataset
  isConnected,
  error,
  wsRef,           \* wsRef.current: 0 (null) or an index into sockets
  sockets,         \* every WebSocket created: [sel, readyState]
  fetches,         \* every fetch started: [sel, pending]
  updates,         \* 'ohlcv_update' messages handled since the last install
  rsiEnabled,      \* the indicator toggles
  emaEnabled,
  bbEnabled,
  botTrades,       \* the trades of the last /bot/trades response
  selectorMounted, \* the ExchangeSelector component is mounted
  dashboardActive,
  dashboardPollRef,\* dashboardPollRef.current: 0 (null) or an index into timers
  timers,          \* every interval created: TRUE while it is not cleared
  botRequests,     \* /bot/start and /bot/stop requests in flight
  botClicks        \* clicks made on Start Bot and on Stop Bot

\* The inputs of the compose effect besides the store and the symbol.
overlay == <<rsiEnabled, emaEnabled, bbEnabled, botTrades>>

\* The live dashboard of ExchangeSelector.
dashboard == <<selectorMounted, dashboardActive, dashboardPollRef, timers,
               botRequests, botClicks>>

vars == <<selection, phase, historicalData, baseChartData, chartData,
          isConnected, error, wsRef, sockets, fetches, updates,
          rsiEnabled, emaEnabled, bbEnabled, botTrades,
          selectorMounted, dashboardActive, dashboardPollRef, timers,
          botRequests, botClicks>>

(* ------------------------- updateChartData ---------------------------- *)

Min(a, b) == IF a <= b THEN a ELSE b
Max(a, b) == IF a >= b THEN a ELSE b

\* new Date(candle.timestamp || candle.datetime)
Label(c) == c.timestamp

\* A point { x, y } of a dataset. An entry of a data array is Some(point),
\* or Null where the array has a hole; y is Some(value), or Null for null.
Point(x, y) == Some([x |-> x, y |-> y])

\* y: [from, to] of a bar
Bar(from, to) == Some([from |-> from, to |-> to])

HighLow(data) ==
  [label |-> "High-Low",
   data |-> [i \in 1..Len(data) |->
               Point(Label(data[i]), Bar(data[i].low, data[i].high))]]

OpenClose(data) ==
  [label |-> "Open-Close",
   data |-> [i \in 1..Len(data) |->
               Point(Label(data[i]),
                     Bar(Min(data[i].open, data[i].close),
                         Max(data[i].open, data[i].close)))]]

\* updateChartData(data): returns early on an empty sequence, else
\* setBaseChartData({labels, datasets}).
UpdateChartData(data, base) ==
  IF Len(data) = 0 THEN base
  ELSE Some([labels |-> [i \in 1..Len(data) |-> Label(data[i])],
             datasets |-> <<HighLow(data), OpenClose(data)>>])

(* ------------------------- number arithmetic -------------------------- *)

\* The indicator values are computed exactly: a number is a fraction n/d in
\* lowest terms with d > 0. (The rounding of the 64-bit floats is not
\* modelled.)
RECURSIVE GCD(_, _)
GCD(a, b) == IF b = 0 THEN a ELSE GCD(b, a % b)

Abs(x) == IF x < 0 THEN -x ELSE x

Rat(n, d) ==
  LET s == IF d < 0 THEN -1 ELSE 1
      g == GCD(Abs(n), Abs(d))
  IN  [n |-> (s * n) \div g, d |-> (s * d) \div g]

\* Number(c.close) of a numeric close.
Number(v) == [n |-> v, d |-> 1]

RatAdd(a, b) ==
  LET g == GCD(a.d, b.d)
  IN  Rat(a.n * (b.d \div g) + b.n * (a.d \div g), (a.d \div g) * b.d)

RatNeg(a) == [n |-> -a.n, d |-> a.d]

RatSub(a, b) == RatAdd(a, RatNeg(b))

RatMul(a, b) ==
  LET g1 == GCD(Abs(a.n), b.d)
      g2 == GCD(Abs(b.n), a.d)
  IN  Rat((a.n \div g1) * (b.n \div g2), (a.d \div g2) * (b.d \div g1))

\* a / b for b # 0
RatDiv(a, b) == RatMul(a, Rat(b.d, b.n))

RatLe(a, b) == a.n * b.d <= b.n * a.d

RatAbs(a) == [n |-> Abs(a.n), d |-> a.d]

\* values.slice(from, to).reduce((a, b) => a + b, 0), over the 1-based
\* positions from..to. An exact sum does not depend on the order of the
\* additions; the halves are added to keep the evaluation shallow.
RECURSIVE Sum(_, _, _)
Sum(values, from, to) ==
  IF from > to THEN Number(0)
  ELSE IF from = to THEN values[from]
  ELSE LET half == (from + to) \div 2
       IN  RatAdd(Sum(values, from, half), Sum(values, half + 1, to))

(* -------------------------- indicator engine -------------------------- *)

\* An entry of an indicator's output array is Some(number), Some(Null) (the
\* entry is null) or Null (a hole: the index was never assigned).
Hole == Null

\* ema(values, period): out and prev after the first j iterations.
\* JavaScript's index i is position i + 1 here.
RECURSIVE emaLoop(_, _, _)
emaLoop(values, period, j) ==
  IF j = 0 THEN [out |-> <<>>, prev |-> Null]
  ELSE LET before == emaLoop(values, period, j - 1)
           k == Rat(2, period + 1)
           prev ==
             IF j = period
             THEN Some(RatDiv(Sum(values, 1, period), Number(period)))
             ELSE IF j > period
             THEN Some(RatAdd(RatMul(values[j], k),
                              RatMul(before.prev[1], RatSub(Number(1), k))))
             ELSE before.prev
       IN  [before EXCEPT
              !.out = Append(@, IF j >= period THEN Some(prev) ELSE Some(Null)),
              !.prev = prev]

\* ema with the entries before period - 1 filled with the raw values.
emaFilled(values, period) ==
  LET out == emaLoop(values, period, Len(values)).out
  IN  [j \in 1..Len(out) |->
         IF out[j] = Some(Null) THEN Some(Some(values[j])) ELSE out[j]]

ema(values, period) == emaLoop(values, period, Len(values)).out

\* rsiValue without the normalisation: 100 * rs.
rsiValueUnscaled(avgGain, avgLoss) ==
  LET rs == IF avgLoss = Number(0) THEN Number(100)
            ELSE RatDiv(avgGain, avgLoss)
  IN  RatMul(Number(100), rs)

\* 100 - 100 / (1 + rs), rs = avgLoss === 0 ? 100 : avgGain / avgLoss
rsiValue(avgGain, avgLoss) ==
  LET rs == IF avgLoss = Number(0) THEN Number(100)
            ELSE RatDiv(avgGain, avgLoss)
  IN  RatSub(Number(100), RatDiv(Number(100), RatAdd(Number(1), rs)))

\* rsi(values, period): the loop's variables after the iterations
\* i = 1..m (positions 2..m + 1). out[i] is assigned from i = period on, so
\* out keeps length 0 until then and has holes at 0..period - 1 after.
RECURSIVE rsiLoop(_, _, _)
rsiLoop(values, period, m) ==
  IF m = 0
  THEN [out |-> <<>>, gains |-> Number(0), losses |-> Number(0),
        prevAvgGain |-> Number(0), prevAvgLoss |-> Number(0)]
  ELSE LET b == rsiLoop(values, period, m - 1)
           change == RatSub(values[m + 1], values[m])
           up == ~RatLe(change, Number(0))
           \* if (i <= period): gains += change or losses += |change|
           gains == IF m <= period /\ up THEN RatAdd(b.gains, change)
                    ELSE b.gains
           losses == IF m <= period /\ ~up
                     THEN RatAdd(b.losses, RatAbs(change))
                     ELSE b.losses
           \* else: Math.max(0, change), Math.max(0, -change)
           gain == IF up THEN change ELSE Number(0)
           loss == IF RatLe(Number(0), change) THEN Number(0)
                   ELSE RatNeg(change)
           avgGain ==
             IF m = period THEN RatDiv(gains, Number(period))
             ELSE RatDiv(RatAdd(RatMul(b.prevAvgGain, Number(period - 1)),
                                gain),
                         Number(period))
           avgLoss ==
             IF m = period THEN RatDiv(losses, Number(period))
             ELSE RatDiv(RatAdd(RatMul(b.prevAvgLoss, Number(period - 1)),
                                loss),
                         Number(period))
           value == Some(Some(rsiValue(avgGain, avgLoss)))
       IN  [b EXCEPT
              !.out = IF m < period THEN @
                      ELSE IF m = period
                      THEN Append([i \in 1..period |-> Hole], value)
                      ELSE Append(@, value),
              !.gains = gains,
              !.losses = losses,
              !.prevAvgGain = IF m < period THEN @ ELSE avgGain,
              !.prevAvgLoss = IF m < period THEN @ ELSE avgLoss]

rsi(values, period) ==
  IF Len(values) = 0 THEN <<>>
  ELSE rsiLoop(values, period, Len(values) - 1).out

\* sma(values, period)
sma(values, period) ==
  [j \in 1..Len(values) |->
     IF j >= period
     THEN Some(Some(RatDiv(Sum(values, j - period + 1, j), Number(period))))
     ELSE Some(Null)]

\* slice.reduce((acc, v) => acc + Math.pow(v - mean, 2), 0) / period, for
\* the slice that ends at position j
variance(values, period, j, mean) ==
  LET sq == [i \in (j - period + 1)..j |->
               RatMul(RatSub(values[i], mean), RatSub(values[i], mean))]
  IN  RatDiv(Sum(sq, j - period + 1, j), Number(period))

\* mean + k * Math.sqrt(variance): the square root is kept as a symbol, the
\* number is the triple (mean, k, variance).
Band(mean, k, var) == [mean |-> mean, k |-> k, variance |-> var]

\* The Bollinger block: middle = sma(closes, period), and for each index
\* upper[i] = mean + 2 * sd, lower[i] = mean - 2 * sd, or null.
middle(values, period) == sma(values, period)

upper(values, period) ==
  LET mid == middle(values, period)
  IN  [j \in 1..Len(values) |->
         IF j >= period /\ mid[j] # Some(Null)
         THEN Some(Some(Band(mid[j][1][1], 2,
                             variance(values, period, j, mid[j][1][1]))))
         ELSE Some(Null)]

\* lower with the deviation taken once instead of twice.
lowerOneSd(values, period) ==
  LET mid == middle(values, period)
  IN  [j \in 1..Len(values) |->
         IF j >= period /\ mid[j] # Some(Null)
         THEN Some(Some(Band(mid[j][1][1], -1,
                             variance(values, period, j, mid[j][1][1]))))
         ELSE Some(Null)]

lower(values, period) ==
  LET mid == middle(values, period)
  IN  [j \in 1..Len(values) |->
         IF j >= period /\ mid[j] # Some(Null)
         THEN Some(Some(Band(mid[j][1][1], -2,
                             variance(values, period, j, mid[j][1][1]))))
         ELSE Some(Null)]

(* --------------------------- compose effect --------------------------- *)

\* ema(closes, 12), ema(closes, 26)
EmaFast == 12
EmaSlow == 26

\* const period = 20 of the Bollinger block
BBPeriod == 20

\* rsi(closes, 14)
RsiPeriod == 14

\* The symbol prop of a selection.
SymbolOf(sel) == IF sel = "kraken ADA/USD 5m" THEN "ADA/USD" ELSE "BTC/USD"

\* historicalData.map(c => Number(c.close)). (Number(undefined) is NaN: the
\* candle without fields is merged only into stores too short for any
\* indicator to hold a value.)
closes(data) == [i \in 1..Len(data) |-> Number(data[i].close)]

\* A line dataset: out.map((v, i) => ({ x: times[i], y: v })). map skips
\* the holes of out, so the data array has the holes of out.
Line(label, out, times) ==
  [label |-> label,
   data |-> [i \in 1..Len(out) |->
               IF out[i] = Hole THEN Hole
               ELSE Point(times[i], out[i][1])]]

\* extraDatasets after the emaEnabled, bbEnabled and rsiEnabled blocks.
extraDatasets(cl, times, rsiOn, emaOn, bbOn) ==
  (IF emaOn
   THEN <<Line("EMA 12", ema(cl, EmaFast), times),
          Line("EMA 26", ema(cl, EmaSlow), times)>>
   ELSE <<>>)
  \o
  (IF bbOn
   THEN <<Line("BB Upper", upper(cl, BBPeriod), times),
          Line("BB Middle", middle(cl, BBPeriod), times),
          Line("BB Lower", lower(cl, BBPeriod), times)>>
   ELSE <<>>)
  \o
  (IF rsiOn THEN <<Line("RSI (14)", rsi(cl, RsiPeriod), times)>> ELSE <<>>)

\* A bot trade as /bot/trades returns it; a price that is missing is 0
\* (falsy as undefined is).
Trade(sym, t, entry, tp, sl) ==
  [symbol |-> sym, open_time |-> t, entry_price |-> entry, tp |-> tp, sl |-> sl]

\* botTrades.filter(t => t.symbol === symbol && t[field])
\*          .map(t => ({ x: new Date(t.open_time), y: Number(t[field]) }))
RECURSIVE Points(_, _, _)
Points(trades, symbol, field) ==
  IF Len(trades) = 0 THEN <<>>
  ELSE LET t == trades[1]
           rest == Points(Tail(trades), symbol, field)
       IN  IF t.symbol = symbol /\ t[field] # 0
           THEN <<Point(t.open_time, Some(Number(t[field])))>> \o rest
           ELSE rest

\* One scatter dataset, pushed only when it has points.
Scatter(label, points) ==
  IF Len(points) > 0 THEN <<[label |-> label, data |-> points]>> ELSE <<>>

\* The datasets the trade-marker block pushes.
Markers(trades, symbol) ==
  Scatter("Entries", Points(trades, symbol, "entry_price"))
  \o Scatter("TakeProfits", Points(trades, symbol, "tp"))
  \o Scatter("StopLosses", Points(trades, symbol, "sl"))

\* Merge with merged.datasets an alias of baseChartData.datasets instead of
\* a copy: the pushes land in the base dataset.
MergeAliased(base, extra, markers) ==
  LET datasets == base.datasets \o extra \o markers
  IN  [chart |-> Some([labels |-> base.labels, datasets |-> datasets]),
       base |-> Some([base EXCEPT !.datasets = datasets])]

\* merged = { labels: base.labels, datasets: [...base.datasets, ...extra] }
\* and the pushes of the markers onto merged.datasets, an array of its own.
\* The result is the object handed to setChartData and the object
\* baseChartData holds after the effect.
Merge(base, extra, markers) ==
  [chart |-> Some([labels |-> base.labels,
                   datasets |-> base.datasets \o extra \o markers]),
   base |-> Some(base)]

\* ComposeEffect that adds the extra datasets and markers to the datasets
\* published before instead of the base datasets.
ComposeOntoPrevious(base, data, chart, rsiOn, emaOn, bbOn, trades, symbol) ==
  IF base = Null \/ Len(data) = 0 THEN [chart |-> chart, base |-> base]
  ELSE Merge(IF chart = Null THEN base[1]
             ELSE [base[1] EXCEPT !.datasets = chart[1].datasets],
             extraDatasets(closes(data), base[1].labels, rsiOn, emaOn, bbOn),
             Markers(trades, symbol))

\* The compose effect: returns early when there is no base dataset or the
\* store is empty, else builds the extra datasets, merges and publishes.
ComposeEffect(base, data, chart, rsiOn, emaOn, bbOn, trades, symbol) ==
  IF base = Null \/ Len(data) = 0 THEN [chart |-> chart, base |-> base]
  ELSE Merge(base[1],
             extraDatasets(closes(data), base[1].labels, rsiOn, emaOn, bbOn),
             Markers(trades, symbol))

(* ---------------------------- candle store ---------------------------- *)

\* MergeUpdate with the comparison against the last candle lost: every update
\* is pushed.
MergeUpdateAlwaysPush(prev, c) ==
  LET pushed == Append(prev, c)
  IN  IF Len(pushed) > N THEN Tail(pushed) ELSE pushed

\* The updater of the 'ohlcv_update' branch: setHistoricalData(prev => ...).
MergeUpdate(prev, c) ==
  IF Len(prev) > 0 /\ prev[Len(prev)].timestamp = c.timestamp
  THEN [prev EXCEPT ![Len(prev)] = c]
  ELSE LET pushed == Append(prev, c)
       IN  IF Len(pushed) > N THEN Tail(pushed) ELSE pushed

\* setHistoricalData(data); updateChartData(data); then the compose effect.
\* The effect has run: r.chart was handed to setChartData, r.base is what
\* baseChartData holds.
Publish(r) ==
  /\ chartData' = r.chart
  /\ baseChartData' = r.base

\* updateChartData(data) and the compose effect after it, under the toggles,
\* trades and symbol of the current render.
Recompose(data) ==
  Publish(ComposeEffect(UpdateChartData(data, baseChartData), data, chartData,
                        rsiEnabled, emaEnabled, bbEnabled, botTrades,
                        SymbolOf(selection)))

\* setHistoricalData(data); updateChartData(data); then the compose effect.
Install(data) ==
  /\ historicalData' = data
  /\ Recompose(data)
  /\ updates' = 0

(* ------------------------------ channel ------------------------------- *)

\* CloseSocket that closes an open socket only and leaves a connecting one.
CloseSocketOnlyOpen(socks, ref) ==
  IF ref = 0 THEN socks
  ELSE [socks EXCEPT ![ref].readyState = IF @ = "OPEN" THEN "CLOSING" ELSE @]

\* wsRef.current.close(): a socket that is connecting or open starts closing.
CloseSocket(socks, ref) ==
  IF ref = 0 THEN socks
  ELSE [socks EXCEPT ![ref].readyState =
          IF @ \in {"CONNECTING", "OPEN"} THEN "CLOSING" ELSE @]

\* ConnectWebSocket without the close of the socket held.
ConnectWebSocketNoClose(socks, ref, sel) ==
  Append(socks, [sel |-> sel, readyState |-> "CONNECTING"])

\* connectWebSocket(): close the socket held, then create the new one.
ConnectWebSocket(socks, ref, sel) ==
  Append(CloseSocket(socks, ref), [sel |-> sel, readyState |-> "CONNECTING"])

\* fetchHistoricalData() up to its first await.
StartFetch(fs, sel) == Append(fs, [sel |-> sel, pending |-> TRUE])

\* The effect body: fetchHistoricalData(); connectWebSocket().
RunEffect(sel, socks) ==
  /\ fetches' = StartFetch(fetches, sel)
  /\ sockets' = ConnectWebSocket(socks, wsRef, sel)
  /\ wsRef' = Len(sockets')

(* ------------------------------- Init --------------------------------- *)

Init ==
  /\ selection = DefaultSelection
  /\ phase = "init"
  /\ historicalData = <<>>
  /\ baseChartData = Null
  /\ chartData = Null
  /\ isConnected = FALSE
  /\ error = NoError
  /\ wsRef = 0
  /\ sockets = <<>>
  /\ fetches = <<>>
  /\ updates = 0
  /\ rsiEnabled = FALSE
  /\ emaEnabled = FALSE
  /\ bbEnabled = FALSE
  /\ botTrades = <<>>
  /\ selectorMounted = TRUE
  /\ dashboardActive = FALSE
  /\ dashboardPollRef = 0
  /\ timers = <<>>
  /\ botRequests = [start |-> 0, stop |-> 0]
  /\ botClicks = [start |-> 0, stop |-> 0]

(* ------------------------------ actions ------------------------------- *)

\* First commit: the fetch/connect effect runs.
Mount ==
  /\ phase = "init"
  /\ phase' = "mounted"
  /\ RunEffect(selection, sockets)
  /\ UNCHANGED <<selection, historicalData, baseChartData, chartData,
                 isConnected, error, updates>>
  /\ UNCHANGED overlay
  /\ UNCHANGED dashboard

\* The props change: the effect's cleanup closes the socket held, then the
\* effect runs for the new selection. The compose effect runs again too
\* (symbol is one of its dependencies).
SelectionChange(s) ==
  /\ phase = "mounted"
  /\ s # selection
  /\ Len(sockets) < MaxStarts
  /\ selection' = s
  /\ RunEffect(s, CloseSocket(sockets, wsRef))
  /\ Publish(ComposeEffect(baseChartData, historicalData, chartData,
                           rsiEnabled, emaEnabled, bbEnabled, botTrades,
                           SymbolOf(s)))
  /\ UNCHANGED <<phase, historicalData, isConnected, error, updates>>
  /\ UNCHANGED overlay
  /\ UNCHANGED dashboard

\* The "Retry Connection" button, rendered while error is set.
Retry ==
  /\ phase = "mounted"
  /\ error # NoError
  /\ Len(sockets) < MaxStarts
  /\ RunEffect(selection, sockets)
  /\ UNCHANGED <<selection, phase, historicalData, baseChartData, chartData,
                 isConnected, error, updates>>
  /\ UNCHANGED overlay
  /\ UNCHANGED dashboard

\* The view is torn down: the effect's cleanup closes the socket held.
Unmount ==
  /\ phase = "mounted"
  /\ phase' = "unmounted"
  /\ sockets' = CloseSocket(sockets, wsRef)
  /\ UNCHANGED <<selection, historicalData, baseChartData, chartData,
                 isConnected, error, wsRef, fetches, updates>>
  /\ UNCHANGED overlay
  /\ UNCHANGED dashboard

\* onopen without setError(null).
OnOpenKeepsError(c) ==
  /\ sockets[c].readyState = "CONNECTING"
  /\ sockets' = [sockets EXCEPT ![c].readyState = "OPEN"]
  /\ isConnected' = IF phase = "mounted" THEN TRUE ELSE isConnected
  /\ UNCHANGED <<selection, phase, historicalData, baseChartData, chartData,
                 error, wsRef, fetches, updates>>
  /\ UNCHANGED overlay
  /\ UNCHANGED dashboard

\* onopen
OnOpen(c) ==
  /\ sockets[c].readyState = "CONNECTING"
  /\ sockets' = [sockets EXCEPT ![c].readyState = "OPEN"]
  /\ IF phase = "mounted"
     THEN isConnected' = TRUE /\ error' = NoError
     ELSE UNCHANGED <<isConnected, error>>
  /\ UNCHANGED <<selection, phase, historicalData, baseChartData, chartData,
                 wsRef, fetches, updates>>
  /\ UNCHANGED overlay
  /\ UNCHANGED dashboard

\* OnFail that also empties the candle store.
OnFailClearsStore(c) ==
  /\ sockets[c].readyState \in {"CONNECTING", "OPEN", "CLOSING"}
  /\ sockets' = [sockets EXCEPT ![c].readyState = "CLOSED"]
  /\ IF phase = "mounted"
     THEN error' = SocketError /\ isConnected' = FALSE /\ historicalData' = <<>>
     ELSE UNCHANGED <<isConnected, error, historicalData>>
  /\ UNCHANGED <<selection, phase, baseChartData, chartData,
                 wsRef, fetches, updates>>
  /\ UNCHANGED overlay
  /\ UNCHANGED dashboard

\* The connection fails: the platform sets the socket CLOSED and fires error
\* and then close in one task, so onerror and onclose run back to back.
OnFail(c) ==
  /\ sockets[c].readyState \in {"CONNECTING", "OPEN", "CLOSING"}
  /\ sockets' = [sockets EXCEPT ![c].readyState = "CLOSED"]
  /\ IF phase = "mounted"
     THEN error' = SocketError /\ isConnected' = FALSE
     ELSE UNCHANGED <<isConnected, error>>
  /\ UNCHANGED <<selection, phase, historicalData, baseChartData, chartData,
                 wsRef, fetches, updates>>
  /\ UNCHANGED overlay
  /\ UNCHANGED dashboard

\* onclose that opens a new channel for the selection when the view is
\* mounted.
OnCloseReconnects(c) ==
  /\ sockets[c].readyState \in {"OPEN", "CLOSING"}
  /\ isConnected' = IF phase = "mounted" THEN FALSE ELSE isConnected
  /\ sockets' =
       LET closed == [sockets EXCEPT ![c].readyState = "CLOSED"]
       IN  IF phase = "mounted" /\ c = wsRef
           THEN ConnectWebSocket(closed, wsRef, selection)
           ELSE closed
  /\ wsRef' = IF phase = "mounted" /\ c = wsRef THEN Len(sockets') ELSE wsRef
  /\ UNCHANGED <<selection, phase, historicalData, baseChartData, chartData,
                 error, fetches, updates>>
  /\ UNCHANGED overlay
  /\ UNCHANGED dashboard

\* onclose after a clean close, started by the server or by close().
OnClose(c) ==
  /\ sockets[c].readyState \in {"OPEN", "CLOSING"}
  /\ sockets' = [sockets EXCEPT ![c].readyState = "CLOSED"]
  /\ isConnected' = IF phase = "mounted" THEN FALSE ELSE isConnected
  /\ UNCHANGED <<selection, phase, historicalData, baseChartData, chartData,
                 error, wsRef, fetches, updates>>
  /\ UNCHANGED overlay
  /\ UNCHANGED dashboard

\* onmessage, data.type === 'initial_ohlcv' with the data array.
OnInitialOhlcvData(c, data) ==
  /\ sockets[c].readyState = "OPEN"
  /\ phase = "mounted"
  /\ Install(data)
  /\ UNCHANGED <<selection, phase, isConnected, error, wsRef, sockets, fetches>>
  /\ UNCHANGED overlay
  /\ UNCHANGED dashboard

\* onmessage, data.type === 'initial_ohlcv' with a data array of k candles.
OnInitialOhlcv(c, k) == OnInitialOhlcvData(c, Snapshot(k))

\* The updater and the effects that follow it, for the candle c of the message.
ApplyUpdate(cdl) ==
  /\ updates < MaxUpdates
  /\ historicalData' = MergeUpdate(historicalData, cdl)
  /\ Recompose(historicalData')
  /\ updates' = updates + 1

\* onmessage, data.type === 'ohlcv_update' with the candle fields.
OnOhlcvUpdateCandle(c, cdl) ==
  /\ sockets[c].readyState = "OPEN"
  /\ phase = "mounted"
  /\ ApplyUpdate(cdl)
  /\ UNCHANGED <<selection, phase, isConnected, error, wsRef, sockets, fetches>>
  /\ UNCHANGED overlay
  /\ UNCHANGED dashboard

\* onmessage, data.type === 'ohlcv_update' with timestamp t and payload 2.
OnOhlcvUpdate(c, t) == OnOhlcvUpdateCandle(c, Candle(t, 2))

\* onmessage, data.type === 'ohlcv_update' without the candle fields: the
\* branch builds a candle of undefined fields and merges it.
OnOhlcvUpdateNoPayload(c) ==
  /\ sockets[c].readyState = "OPEN"
  /\ phase = "mounted"
  /\ ApplyUpdate(UndefinedCandle)
  /\ UNCHANGED <<selection, phase, isConnected, error, wsRef, sockets, fetches>>
  /\ UNCHANGED overlay
  /\ UNCHANGED dashboard

\* onmessage, data.type === 'initial_ohlcv' without data:
\* setHistoricalData(undefined); the next render reads historicalData.length
\* and throws, no error boundary catches it, React unmounts the tree and the
\* cleanup closes the socket. The state is never committed.
OnInitialOhlcvNoPayload(c) ==
  /\ sockets[c].readyState = "OPEN"
  /\ phase = "mounted"
  /\ phase' = "crashed"
  /\ sockets' = CloseSocket(sockets, wsRef)
  /\ UNCHANGED <<selection, historicalData, baseChartData, chartData,
                 isConnected, error, wsRef, fetches, updates>>
  /\ UNCHANGED overlay
  /\ UNCHANGED dashboard

\* onmessage with text JSON.parse rejects: the catch logs it.
OnUnparseable(c) ==
  /\ sockets[c].readyState = "OPEN"
  /\ phase = "mounted"
  /\ UNCHANGED vars

\* onmessage with a type that is neither 'initial_ohlcv' nor 'ohlcv_update':
\* no branch is taken.
OnUnknownType(c) ==
  /\ sockets[c].readyState = "OPEN"
  /\ phase = "mounted"
  /\ UNCHANGED vars

\* fetchHistoricalData resumes with response.ok and the candles
\* data.data || [].
FetchOkData(f, data) ==
  /\ fetches[f].pending
  /\ fetches' = [fetches EXCEPT ![f].pending = FALSE]
  /\ IF phase = "mounted"
     THEN Install(data)
     ELSE UNCHANGED <<historicalData, baseChartData, chartData, updates>>
  /\ UNCHANGED <<selection, phase, isConnected, error, wsRef, sockets>>
  /\ UNCHANGED overlay
  /\ UNCHANGED dashboard

\* fetchHistoricalData resumes with response.ok and k candles.
FetchOk(f, k) == FetchOkData(f, Snapshot(k))

\* fetchHistoricalData resumes with a response that is not ok: nothing is set.
FetchNotOk(f) ==
  /\ fetches[f].pending
  /\ fetches' = [fetches EXCEPT ![f].pending = FALSE]
  /\ UNCHANGED <<selection, phase, historicalData, baseChartData, chartData,
                 isConnected, error, wsRef, sockets, updates>>
  /\ UNCHANGED overlay
  /\ UNCHANGED dashboard

\* fetch or response.json() rejects: the catch sets the error.
FetchThrow(f) ==
  /\ fetches[f].pending
  /\ fetches' = [fetches EXCEPT ![f].pending = FALSE]
  /\ error' = IF phase = "mounted" THEN FetchFailed ELSE error
  /\ UNCHANGED <<selection, phase, historicalData, baseChartData, chartData,
                 isConnected, wsRef, sockets, updates>>
  /\ UNCHANGED overlay
  /\ UNCHANGED dashboard

\* The compose effect after a change of a toggle or of botTrades.
ComposeWith(rsiOn, emaOn, bbOn, trades) ==
  Publish(ComposeEffect(baseChartData, historicalData, chartData,
                        rsiOn, emaOn, bbOn, trades, SymbolOf(selection)))

\* The RSI checkbox: setRsiEnabled(e.target.checked)
ToggleRsi ==
  /\ phase = "mounted"
  /\ rsiEnabled' = ~rsiEnabled
  /\ ComposeWith(rsiEnabled', emaEnabled, bbEnabled, botTrades)
  /\ UNCHANGED <<selection, phase, historicalData, isConnected, error, wsRef,
                 sockets, fetches, updates, emaEnabled, bbEnabled, botTrades>>
  /\ UNCHANGED dashboard

\* The EMA(12/26) checkbox: setEmaEnabled(e.target.checked)
ToggleEma ==
  /\ phase = "mounted"
  /\ emaEnabled' = ~emaEnabled
  /\ ComposeWith(rsiEnabled, emaEnabled', bbEnabled, botTrades)
  /\ UNCHANGED <<selection, phase, historicalData, isConnected, error, wsRef,
                 sockets, fetches, updates, rsiEnabled, bbEnabled, botTrades>>
  /\ UNCHANGED dashboard

\* The Bollinger Bands checkbox: setBbEnabled(e.target.checked)
ToggleBb ==
  /\ phase = "mounted"
  /\ bbEnabled' = ~bbEnabled
  /\ ComposeWith(rsiEnabled, emaEnabled, bbEnabled', botTrades)
  /\ UNCHANGED <<selection, phase, historicalData, isConnected, error, wsRef,
                 sockets, fetches, updates, rsiEnabled, emaEnabled, botTrades>>
  /\ UNCHANGED dashboard

\* loadTrades resumes with an ok response: setBotTrades(j.trades || []).
TradesLoaded(trades) ==
  /\ phase = "mounted"
  /\ botTrades' = trades
  /\ ComposeWith(rsiEnabled, emaEnabled, bbEnabled, botTrades')
  /\ UNCHANGED <<selection, phase, historicalData, isConnected, error, wsRef,
                 sockets, fetches, updates, rsiEnabled, emaEnabled, bbEnabled>>
  /\ UNCHANGED dashboard

Next ==
  \/ Mount
  \/ \E s \in Selections : SelectionChange(s)
  \/ Retry
  \/ Unmount
  \/ \E c \in DOMAIN sockets : OnOpen(c)
  \/ \E c \in DOMAIN sockets : OnFail(c)
  \/ \E c \in DOMAIN sockets : OnClose(c)
  \/ \E c \in DOMAIN sockets : \E k \in ShortSnapshotLens : OnInitialOhlcv(c, k)
  \/ \E c \in DOMAIN sockets :
       \E t \in ShortUpdateTimestamps : OnOhlcvUpdate(c, t)
  \/ \E c \in DOMAIN sockets : OnOhlcvUpdateNoPayload(c)
  \/ \E c \in DOMAIN sockets : OnInitialOhlcvNoPayload(c)
  \/ \E c \in DOMAIN sockets : OnUnparseable(c)
  \/ \E c \in DOMAIN sockets : OnUnknownType(c)
  \/ \E f \in DOMAIN fetches : \E k \in ShortSnapshotLens : FetchOk(f, k)
  \/ \E f \in DOMAIN fetches : FetchNotOk(f)
  \/ \E f \in DOMAIN fetches : FetchThrow(f)

Spec == Init /\ [][Next]_vars

\* The store's events on the first channel, with snapshots at and over
\* capacity.
StoreNext ==
  \/ Mount
  \/ \E c \in DOMAIN sockets : OnOpen(c)
  \/ \E c \in DOMAIN sockets : \E k \in SnapshotLens : OnInitialOhlcv(c, k)
  \/ \E c \in DOMAIN sockets : \E t \in UpdateTimestamps : OnOhlcvUpdate(c, t)
  \/ \E c \in DOMAIN sockets : OnOhlcvUpdateNoPayload(c)
  \/ \E c \in DOMAIN sockets : OnInitialOhlcvNoPayload(c)
  \/ \E c \in DOMAIN sockets : OnUnparseable(c)
  \/ \E c \in DOMAIN sockets : OnUnknownType(c)
  \/ \E f \in DOMAIN fetches : \E k \in FetchLens : FetchOk(f, k)

StoreSpec == Init /\ [][StoreNext]_vars

(* Inputs of IndicatorSpec, which installs one snapshot and switches the    *)
(* indicators on and off.                                                   *)

\* Candles 1..n with the closes cs.
Candles(cs) == [i \in 1..Len(cs) |-> Candle(i, cs[i])]

\* Every close sequence of at most MaxLen prices in 1..MaxClose.
ShortCloses == UNION {[1..n -> 1..MaxClose] : n \in 0..MaxLen}

Up(n) == [i \in 1..n |-> i]
Down(n) == [i \in 1..n |-> n + 1 - i]
Flat(n) == [i \in 1..n |-> 5]
\* A rise with one drop before the last close.
Kink(n) == [i \in 1..n |-> IF i = n - 1 THEN 1 ELSE i]
\* An irregular sequence of prices in 1..7.
Saw(n) == [i \in 1..n |-> ((i * i) % 7) + 1]

\* Lengths around the periods 12, 14, 20 and 26.
LongLens == {11, 12, 14, 15, 16, 19, 20, 21, 26, 27}

LongCloses ==
  {Up(n) : n \in LongLens} \cup {Down(n) : n \in LongLens}
  \cup {Flat(n) : n \in LongLens} \cup {Kink(n) : n \in LongLens}
  \cup {Saw(n) : n \in {15, 16}}

CloseSeqs == ShortCloses \cup LongCloses

IndicatorNext ==
  \/ Mount
  \/ \E f \in DOMAIN fetches : \E cs \in CloseSeqs : FetchOkData(f, Candles(cs))
  \/ ToggleRsi
  \/ ToggleEma
  \/ ToggleBb

IndicatorSpec == Init /\ [][IndicatorNext]_vars

\* /bot/trades responses.
TradeLists ==
  {<<>>,
   <<Trade("ADA/USD", 1, 5, 6, 0), Trade("BTC/USD", 2, 7, 0, 3)>>}

(* FrameSpec follows one start of the fetch/connect pair through every      *)
(* event of the view, the toggles and the trade poll included, over short   *)
(* snapshots.                                                               *)

FrameNext ==
  \/ Mount
  \/ Unmount
  \/ \E c \in DOMAIN sockets : OnOpen(c)
  \/ \E c \in DOMAIN sockets : OnFail(c)
  \/ \E c \in DOMAIN sockets : OnClose(c)
  \/ \E c \in DOMAIN sockets : \E k \in ShortSnapshotLens : OnInitialOhlcv(c, k)
  \/ \E c \in DOMAIN sockets :
       \E t \in ShortUpdateTimestamps : OnOhlcvUpdate(c, t)
  \/ \E c \in DOMAIN sockets : OnOhlcvUpdateNoPayload(c)
  \/ \E c \in DOMAIN sockets : OnUnparseable(c)
  \/ \E c \in DOMAIN sockets : OnUnknownType(c)
  \/ \E f \in DOMAIN fetches : \E k \in ShortSnapshotLens : FetchOk(f, k)
  \/ \E f \in DOMAIN fetches : FetchNotOk(f)
  \/ \E f \in DOMAIN fetches : FetchThrow(f)
  \/ ToggleRsi
  \/ ToggleEma
  \/ ToggleBb
  \/ \E trades \in TradeLists : TradesLoaded(trades)

FrameSpec == Init /\ [][FrameNext]_vars

(* Inputs of ComposeSpec, which follows the composed dataset through        *)
(* installs, updates, toggles, trades and selection changes.                *)

\* Snapshots of the fetch and of 'initial_ohlcv': none, 2 and 15 candles.
ComposeSnapshots == {Candles(Up(0)), Candles(Up(2)), Candles(Up(15))}

ComposeNext ==
  \/ Mount
  \/ \E s \in Selections : SelectionChange(s)
  \/ \E c \in DOMAIN sockets : OnOpen(c)
  \/ \E c \in DOMAIN sockets :
       \E data \in ComposeSnapshots : OnInitialOhlcvData(c, data)
  \/ \E c \in DOMAIN sockets : OnOhlcvUpdateCandle(c, Candle(16, 3))
  \/ \E f \in DOMAIN fetches :
       \E data \in ComposeSnapshots : FetchOkData(f, data)
  \/ ToggleRsi
  \/ ToggleEma
  \/ ToggleBb
  \/ \E trades \in TradeLists : TradesLoaded(trades)

ComposeSpec == Init /\ [][ComposeNext]_vars

(* --------------------------- live dashboard --------------------------- *)

\* The state of CandlestickChart, which the dashboard's handlers leave alone.
chart == <<selection, phase, historicalData, baseChartData, chartData,
           isConnected, error, wsRef, sockets, fetches, updates,
           rsiEnabled, emaEnabled, bbEnabled, botTrades>>

\* clearInterval(id)
ClearInterval(ts, id) == [ts EXCEPT ![id] = FALSE]

\* A click on Start Bot: startDashboard up to its await of POST /bot/start.
ClickStart ==
  /\ selectorMounted
  /\ botClicks.start < MaxBotClicks
  /\ botClicks' = [botClicks EXCEPT !.start = @ + 1]
  /\ botRequests' = [botRequests EXCEPT !.start = @ + 1]
  /\ UNCHANGED <<selectorMounted, dashboardActive, dashboardPollRef, timers>>
  /\ UNCHANGED chart

\* startDashboard resumes with an ok response: setDashboardActive(true) (no
\* effect after the unmount), then
\* dashboardPollRef.current = setInterval(fetchDashboardTrades, 3000).
StartOk ==
  /\ botRequests.start > 0
  /\ botRequests' = [botRequests EXCEPT !.start = @ - 1]
  /\ dashboardActive' = IF selectorMounted THEN TRUE ELSE dashboardActive
  /\ timers' = Append(timers, TRUE)
  /\ dashboardPollRef' = Len(timers')
  /\ UNCHANGED <<selectorMounted, botClicks>>
  /\ UNCHANGED chart

\* startDashboard resumes with a response that is not ok, or the request
\* rejects: an alert, nothing else.
StartFailed ==
  /\ botRequests.start > 0
  /\ botRequests' = [botRequests EXCEPT !.start = @ - 1]
  /\ UNCHANGED <<selectorMounted, dashboardActive, dashboardPollRef, timers,
                 botClicks>>
  /\ UNCHANGED chart

\* A click on Stop Bot: stopDashboard up to its await of POST /bot/stop.
ClickStop ==
  /\ selectorMounted
  /\ botClicks.stop < MaxBotClicks
  /\ botClicks' = [botClicks EXCEPT !.stop = @ + 1]
  /\ botRequests' = [botRequests EXCEPT !.stop = @ + 1]
  /\ UNCHANGED <<selectorMounted, dashboardActive, dashboardPollRef, timers>>
  /\ UNCHANGED chart

\* stopDashboard resumes with an ok response: setDashboardActive(false), and
\* the interval dashboardPollRef holds is cleared and the ref set to null.
StopOk ==
  /\ botRequests.stop > 0
  /\ botRequests' = [botRequests EXCEPT !.stop = @ - 1]
  /\ dashboardActive' = IF selectorMounted THEN FALSE ELSE dashboardActive
  /\ timers' = IF dashboardPollRef = 0 THEN timers
               ELSE ClearInterval(timers, dashboardPollRef)
  /\ dashboardPollRef' = 0
  /\ UNCHANGED <<selectorMounted, botClicks>>
  /\ UNCHANGED chart

\* stopDashboard resumes with a response that is not ok, or the request
\* rejects: an alert, nothing else.
StopFailed ==
  /\ botRequests.stop > 0
  /\ botRequests' = [botRequests EXCEPT !.stop = @ - 1]
  /\ UNCHANGED <<selectorMounted, dashboardActive, dashboardPollRef, timers,
                 botClicks>>
  /\ UNCHANGED chart

\* ExchangeSelector unmounts: the cleanup clears the interval the ref holds
\* and leaves the ref as it is.
SelectorUnmount ==
  /\ selectorMounted
  /\ selectorMounted' = FALSE
  /\ timers' = IF dashboardPollRef = 0 THEN timers
               ELSE ClearInterval(timers, dashboardPollRef)
  /\ UNCHANGED <<dashboardActive, dashboardPollRef, botRequests, botClicks>>
  /\ UNCHANGED chart

DashboardNext ==
  \/ ClickStart
  \/ StartOk
  \/ StartFailed
  \/ ClickStop
  \/ StopOk
  \/ StopFailed
  \/ SelectorUnmount

DashboardSpec == Init /\ [][DashboardNext]_vars

(* ------------------------------ claims -------------------------------- *)

Timestamps(data) == {data[i].timestamp : i \in DOMAIN data}

\* A channel is active from its creation until it is closed, by close() or
\* by the other side.
Active(s) == s.readyState \in {"CONNECTING", "OPEN"}

\* The last n entries of a sequence (all of it when it has fewer).
LastN(data, n) ==
  IF Len(data) <= n THEN data ELSE SubSeq(data, Len(data) - n + 1, Len(data))

\* C1: in every reachable state the candle store holds at most N = 100
\* candles, whatever the length of the snapshots installed.
C1_StoreAtMostN == Len(historicalData) <= N

\* C2: in every reachable state the candle store holds at most one candle
\* per timestamp.
C2_UniqueTimestamps ==
  \A i, j \in DOMAIN historicalData :
    i # j => historicalData[i].timestamp # historicalData[j].timestamp

\* C3: in every reachable state the candle store is sorted ascending by
\* timestamp.
C3_SortedByTimestamp ==
  \A i, j \in DOMAIN historicalData :
    i < j => historicalData[i].timestamp <= historicalData[j].timestamp

\* C4: data produced for a previous selection is never applied to the store:
\* the result of a fetch started for a selection that is no longer the active
\* one, and a message of a socket opened for such a selection, leave the store
\* unchanged.
C4_StaleDataDiscarded ==
  [][ /\ \A f \in DOMAIN fetches : \A k \in ShortSnapshotLens :
           (FetchOk(f, k) /\ fetches[f].sel # selection)
             => historicalData' = historicalData
      /\ \A c \in DOMAIN sockets :
           ( /\ sockets[c].sel # selection
             /\ \/ \E k \in ShortSnapshotLens : OnInitialOhlcv(c, k)
                \/ \E t \in ShortUpdateTimestamps : OnOhlcvUpdate(c, t)
                \/ OnOhlcvUpdateNoPayload(c) )
             => historicalData' = historicalData ]_vars

\* C5: at any time at most one live channel is active (connecting or open),
\* and it is the one wsRef holds: every socket that was replaced, by a
\* selection change or a manual retry, has been closed.
C5_OneActiveChannel ==
  /\ Cardinality({c \in DOMAIN sockets : Active(sockets[c])}) <= 1
  /\ \A c \in DOMAIN sockets : Active(sockets[c]) => c = wsRef

\* C5's case: a second socket has been opened while the first, closed by the
\* replacement, has not yet reported its close.
C5_Witness ==
  /\ Len(sockets) = 2
  /\ sockets[1].readyState = "CLOSING"
  /\ sockets[2].readyState = "OPEN"
  /\ wsRef = 2

\* C6: installing a snapshot (a fetch result or an 'initial_ohlcv' message)
\* discards the prior content and leaves exactly the given sequence truncated
\* to its N = 100 most recent entries, in the input order.
C6_InstallTruncatesToN ==
  [][ /\ \A c \in DOMAIN sockets : \A k \in SnapshotLens :
           OnInitialOhlcv(c, k) => historicalData' = LastN(Snapshot(k), N)
      /\ \A f \in DOMAIN fetches : \A k \in FetchLens :
           (FetchOk(f, k) /\ phase = "mounted")
             => historicalData' = LastN(Snapshot(k), N) ]_vars

\* C7: an incremental update whose timestamp equals the timestamp of the
\* current last candle replaces that last candle in place: the length of the
\* store is unchanged and so is every other candle.
C7_TailReplacedInPlace ==
  [][ \A c \in DOMAIN sockets : \A t \in UpdateTimestamps :
        ( /\ OnOhlcvUpdate(c, t)
          /\ Len(historicalData) > 0
          /\ historicalData[Len(historicalData)].timestamp = t )
          => /\ Len(historicalData') = Len(historicalData)
             /\ \A i \in 1..(Len(historicalData) - 1) :
                  historicalData'[i] = historicalData[i]
             /\ historicalData'[Len(historicalData)] = Candle(t, 2) ]_vars

\* C7's case: the snapshot of N candles with its last candle revised by one
\* update and the other N - 1 candles as installed.
C7_Witness ==
  /\ updates = 1
  /\ Len(historicalData) = N
  /\ historicalData[N] = Candle(N, 2)
  /\ \A i \in 1..(N - 1) : historicalData[i] = Candle(i, 1)

\* C8: an incremental update with a timestamp not present in the store
\* appends the candle as the new last entry; if the resulting length is
\* greater than N = 100 the oldest entry is evicted and the length afterwards
\* equals N.
C8_AppendThenEvict ==
  [][ \A c \in DOMAIN sockets : \A t \in UpdateTimestamps :
        (OnOhlcvUpdate(c, t) /\ t \notin Timestamps(historicalData))
          => /\ historicalData'[Len(historicalData')] = Candle(t, 2)
             /\ Len(historicalData) + 1 <= N
                  => historicalData' = Append(historicalData, Candle(t, 2))
             /\ Len(historicalData) + 1 > N
                  => /\ historicalData' =
                          Tail(Append(historicalData, Candle(t, 2)))
                     /\ Len(historicalData') = N ]_vars

\* C9: an incremental update whose timestamp equals that of an existing
\* candle that is not the last one replaces that candle at its position; the
\* length of the store and the other candles are unchanged.
C9_NonTailReplacedInPlace ==
  [][ \A c \in DOMAIN sockets : \A t \in UpdateTimestamps :
        \A i \in 1..(Len(historicalData) - 1) :
          ( /\ OnOhlcvUpdate(c, t)
            /\ historicalData[i].timestamp = t
            /\ historicalData[Len(historicalData)].timestamp # t )
            => historicalData' = [historicalData EXCEPT ![i] = Candle(t, 2)] ]_vars

\* C10: a malformed channel message (unparseable JSON, an unknown type, or a
\* recognised type with a missing payload) is dropped: the candle store, the
\* composed dataset, the connection flag and the error state are unchanged.
C10_MalformedDropped ==
  [][ \A c \in DOMAIN sockets :
        ( \/ OnUnparseable(c)
          \/ OnUnknownType(c)
          \/ OnInitialOhlcvNoPayload(c)
          \/ OnOhlcvUpdateNoPayload(c) )
          => UNCHANGED <<historicalData, chartData, isConnected, error>> ]_vars

\* C11: when the selection changes, the candle store of the previous
\* selection is discarded: the store is empty for the new selection until its
\* own snapshot or updates arrive.
C11_StoreDiscardedOnSelection ==
  [][ \A s \in Selections :
        SelectionChange(s) => historicalData' = <<>> ]_vars

\* C20: when the snapshot fetch fails (it rejects, or the response is not
\* ok) while the view is mounted, the error is non-null right after, and a
\* channel was created for the selection of that fetch.
C20_FetchFailureSurfaced ==
  [][ \A f \in DOMAIN fetches :
        ((FetchNotOk(f) \/ FetchThrow(f)) /\ phase = "mounted")
          => /\ error' # NoError
             /\ \E c \in DOMAIN sockets : sockets[c].sel = fetches[f].sel ]_vars

\* The periods the indicator functions are tried with: three small ones and
\* the program's four.
Periods == {1, 2, 3} \cup {EmaFast, RsiPeriod, BBPeriod, EmaSlow}

\* An entry that holds a number: neither a hole nor null.
Defined(entry) == entry # Hole /\ entry # Some(Null)

\* C12: every indicator function (ema, rsi, sma, the Bollinger upper and
\* lower bands) returns a sequence with exactly as many entries as the close
\* sequence it is given, whatever its length.
C12_SameLengthAsInput ==
  LET cl == closes(historicalData)
  IN  \A p \in Periods :
        /\ Len(ema(cl, p)) = Len(cl)
        /\ Len(rsi(cl, p)) = Len(cl)
        /\ Len(sma(cl, p)) = Len(cl)
        /\ Len(upper(cl, p)) = Len(cl)
        /\ Len(lower(cl, p)) = Len(cl)

StrictlyIncreasing(data) ==
  \A i \in 1..(Len(data) - 1) : data[i].close < data[i + 1].close

\* C13: for a strictly increasing close sequence of more than 14 closes, the
\* RSI (period 14) is 100 at every index where it is defined.
C13_RsiSaturatesAt100 ==
  (StrictlyIncreasing(historicalData) /\ Len(historicalData) > RsiPeriod)
    => LET rr == rsi(closes(historicalData), RsiPeriod)
       IN  \A i \in DOMAIN rr : Defined(rr[i]) => rr[i][1][1] = Number(100)

\* The datasets of the composed dataset that carry the label.
Labelled(label) ==
  IF chartData = Null THEN {}
  ELSE {d \in {chartData[1].datasets[i] : i \in DOMAIN chartData[1].datasets} :
          d.label = label}

\* The point i of a line dataset holds a number.
HasValue(d, i) == d.data[i] # Hole /\ d.data[i][1].y # Null

ValueAt(d, i) == d.data[i][1].y[1]

\* C14: for every close sequence and period, every defined value of the RSI
\* series lies in the closed interval [0, 100].
C14_RsiWithinBounds ==
  LET cl == closes(historicalData)
  IN  \A p \in Periods :
        LET rr == rsi(cl, p)
        IN  \A i \in DOMAIN rr :
              Defined(rr[i]) => /\ RatLe(Number(0), rr[i][1][1])
                                /\ RatLe(rr[i][1][1], Number(100))

\* RSI is on, and the composed dataset shows an RSI value strictly between
\* 0 and 100 (gains and losses both occurred).
C14_Witness ==
  /\ rsiEnabled
  /\ \E d \in Labelled("RSI (14)") :
       \E i \in DOMAIN d.data :
         /\ HasValue(d, i)
         /\ ~RatLe(ValueAt(d, i), Number(0))
         /\ ~RatLe(Number(100), ValueAt(d, i))

\* C15: for an input of at least p closes, EMA(values, p) is null at every
\* index below p - 1 and holds a number at every index from p - 1 on.
C15_EmaWarmUp ==
  LET cl == closes(historicalData)
  IN  \A p \in Periods :
        Len(cl) >= p =>
          LET e == ema(cl, p)
          IN  \A j \in 1..Len(cl) :
                IF j < p THEN e[j] = Some(Null) ELSE Defined(e[j])

\* EMA is on over at least 26 closes, and the composed EMA 26 line is null at
\* index 24 and holds a number at index 25.
C15_Witness ==
  /\ emaEnabled
  /\ Len(historicalData) >= EmaSlow
  /\ \E d \in Labelled("EMA 26") :
       /\ d.data[EmaSlow - 1] # Hole /\ d.data[EmaSlow - 1][1].y = Null
       /\ HasValue(d, EmaSlow)

\* The sum of the close fields of the candles from..to.
RECURSIVE CloseSum(_, _, _)
CloseSum(data, from, to) ==
  IF from > to THEN 0 ELSE CloseSum(data, from, to - 1) + data[to].close

\* band - x and x - band for a band mean + k * sqrt(variance) and a number x.
BandMinus(band, x) == [band EXCEPT !.mean = RatSub(@, x)]
MinusBand(x, band) ==
  [band EXCEPT !.mean = RatSub(x, @), !.k = 0 - @]

\* C17: at every index where the window of p closes is full, the middle band
\* is the mean of the trailing p closes and upper - middle = middle - lower;
\* at every index before, the three bands are null. (p = 20 in the program.)
C17_BollingerSymmetric ==
  LET cl == closes(historicalData)
  IN  \A p \in Periods :
        LET u == upper(cl, p)
            m == middle(cl, p)
            l == lower(cl, p)
        IN  \A j \in 1..Len(cl) :
              IF j >= p
              THEN /\ Defined(u[j]) /\ Defined(m[j]) /\ Defined(l[j])
                   /\ m[j][1][1].n * p
                        = m[j][1][1].d * CloseSum(historicalData, j - p + 1, j)
                   /\ BandMinus(u[j][1][1], m[j][1][1])
                        = MinusBand(m[j][1][1], l[j][1][1])
              ELSE /\ u[j] = Some(Null)
                   /\ m[j] = Some(Null)
                   /\ l[j] = Some(Null)

\* The bands are on over at least 20 closes: the composed dataset holds the
\* three lines, null at index 18, and at index 19 an upper band with a
\* deviation that is not zero.
C17_Witness ==
  /\ bbEnabled
  /\ Len(historicalData) >= BBPeriod
  /\ \E u \in Labelled("BB Upper") :
       \E m \in Labelled("BB Middle") :
         \E l \in Labelled("BB Lower") :
           /\ ~HasValue(u, BBPeriod - 1)
           /\ ~HasValue(m, BBPeriod - 1)
           /\ ~HasValue(l, BBPeriod - 1)
           /\ HasValue(u, BBPeriod) /\ HasValue(m, BBPeriod)
           /\ HasValue(l, BBPeriod)
           /\ ValueAt(u, BBPeriod).variance # Number(0)

\* C16: with RSI enabled and fewer than 14 closes in the store, the RSI
\* series of the composed dataset holds no number at any index.
C16_ShortStoreRsiUndefined ==
  (phase = "mounted" /\ rsiEnabled /\ Len(historicalData) < RsiPeriod)
    => \A d \in Labelled("RSI (14)") :
         \A i \in DOMAIN d.data : ~HasValue(d, i)

\* The dataset one composition builds from nothing but the store, the
\* toggles, the trades and the symbol.
ComposedFrom(data, rsiOn, emaOn, bbOn, trades, symbol) ==
  ComposeEffect(UpdateChartData(data, Null), data, Null,
                rsiOn, emaOn, bbOn, trades, symbol).chart

\* C18: recomposition is deterministic: whenever the store is not empty, the
\* composed dataset is the one value determined by the store, the toggles,
\* the trade markers and the symbol, whatever was composed before; so two
\* compositions on identical inputs publish equal datasets.
C18_ComposeDeterministic ==
  (phase = "mounted" /\ Len(historicalData) > 0)
    => chartData = ComposedFrom(historicalData, rsiEnabled, emaEnabled,
                                bbEnabled, botTrades, SymbolOf(selection))

\* The dataset has been composed again after a change of the toggles and of
\* the trades: an indicator line and a marker dataset are in it.
C18_Witness ==
  /\ phase = "mounted"
  /\ Len(historicalData) >= RsiPeriod + 1
  /\ rsiEnabled /\ ~emaEnabled
  /\ Labelled("RSI (14)") # {}
  /\ Labelled("Entries") # {}
  /\ Labelled("EMA 12") = {}

\* C19: a recomposition after a toggle or a trades response leaves
\* baseChartData as it was, and every other step leaves in it what
\* updateChartData built from the store: the indicator and marker datasets
\* are appended to the new dataset list only.
C19_BaseUntouched ==
  [][ /\ (ToggleRsi \/ ToggleEma \/ ToggleBb
           \/ \E trades \in TradeLists : TradesLoaded(trades))
        => baseChartData' = baseChartData
      /\ baseChartData'
           \in {baseChartData, UpdateChartData(historicalData', baseChartData)}
    ]_vars

\* A composition has appended indicator and marker datasets while the base
\* dataset holds its two bar datasets.
C19_Witness ==
  /\ chartData # Null
  /\ baseChartData # Null
  /\ Len(baseChartData[1].datasets) = 2
  /\ Len(chartData[1].datasets) > 3
  /\ Labelled("StopLosses") # {}
  /\ emaEnabled

\* C21: the live channel is opened only after the snapshot fetch of the same
\* start has completed: no socket exists whose fetch is still pending.
C21_ConnectAfterFetch ==
  \A c \in DOMAIN sockets : ~fetches[c].pending

\* C22: when the channel reports open while the view is mounted, isConnected
\* becomes true and the error is cleared.
C22_OpenMakesLive ==
  [][ \A c \in DOMAIN sockets :
        (OnOpen(c) /\ phase = "mounted")
          => /\ isConnected'
             /\ error' = NoError ]_vars

\* A manual retry was made (so an error was showing), its channel has opened,
\* and the view shows connected with no error.
C22_Witness ==
  /\ phase = "mounted"
  /\ Len(sockets) = 2
  /\ sockets[1].sel = sockets[2].sel
  /\ sockets[2].readyState = "OPEN"
  /\ isConnected
  /\ error = NoError

\* C23: a new channel is created only by the mount, a selection change or a
\* manual retry; a close or an error of the channel creates none and leaves
\* wsRef as it is, so the view stays disconnected until one of those events.
C23_NoAutomaticReconnect ==
  [][ /\ Len(sockets') # Len(sockets)
        => (Mount \/ Retry \/ \E s \in Selections : SelectionChange(s))
      /\ \A c \in DOMAIN sockets :
           (OnClose(c) \/ OnFail(c))
             => /\ Len(sockets') = Len(sockets)
                /\ wsRef' = wsRef
                /\ (phase = "mounted" => ~isConnected') ]_vars

\* The only channel was open and has closed: the mounted view shows
\* disconnected and holds no other channel.
C23_Witness ==
  /\ phase = "mounted"
  /\ Len(sockets) = 1
  /\ sockets[1].readyState = "CLOSED"
  /\ ~isConnected

\* C24: an unmount or a selection change closes the channel held in the same
\* event (it is no longer connecting or open right after), and after an
\* unmount no channel is connecting or open.
C24_ChannelClosedOnTeardown ==
  /\ [](phase = "unmounted"
          => \A c \in DOMAIN sockets : ~Active(sockets[c]))
  /\ [][ (Unmount \/ \E s \in Selections : SelectionChange(s))
           => (wsRef # 0 => ~Active(sockets'[wsRef])) ]_vars

\* The view was unmounted while its channel was still connecting or open, and
\* the channel is closing.
C24_Witness ==
  /\ phase = "unmounted"
  /\ wsRef # 0
  /\ sockets[wsRef].readyState = "CLOSING"

Present(label) == Labelled(label) # {}

\* The trades of the active symbol that carry the field.
TradesWith(field) ==
  {i \in DOMAIN botTrades :
     botTrades[i].symbol = SymbolOf(selection) /\ botTrades[i][field] # 0}

\* The marker dataset of the field is there exactly when a trade of the
\* active symbol carries it, and each of its points is such a trade's.
MarkersOf(label, field) ==
  /\ Present(label) <=> TradesWith(field) # {}
  /\ \A d \in Labelled(label) :
       \A i \in DOMAIN d.data :
         \E j \in TradesWith(field) :
           d.data[i] = Point(botTrades[j].open_time,
                             Some(Number(botTrades[j][field])))

\* C25: the composed dataset holds the two base series always, the series of
\* an indicator exactly when its toggle is on, and a marker series exactly
\* when a trade of the active symbol has that field; trades of other symbols
\* contribute no point.
C25_DatasetContents ==
  (phase = "mounted" /\ chartData # Null)
    => /\ Present("High-Low") /\ Present("Open-Close")
       /\ Present("EMA 12") <=> emaEnabled
       /\ Present("EMA 26") <=> emaEnabled
       /\ Present("BB Upper") <=> bbEnabled
       /\ Present("BB Middle") <=> bbEnabled
       /\ Present("BB Lower") <=> bbEnabled
       /\ Present("RSI (14)") <=> rsiEnabled
       /\ MarkersOf("Entries", "entry_price")
       /\ MarkersOf("TakeProfits", "tp")
       /\ MarkersOf("StopLosses", "sl")

SeriesLabels ==
  {"High-Low", "Open-Close", "EMA 12", "EMA 26", "BB Upper", "BB Middle",
   "BB Lower", "RSI (14)"}

\* C26: every base and indicator series of the published dataset has as many
\* entries as the candle store, also after an empty snapshot.
C26_SeriesAligned ==
  (phase = "mounted" /\ chartData # Null)
    => \A label \in SeriesLabels :
         \A d \in Labelled(label) : Len(d.data) = Len(historicalData)

\* C27: the candle store changes only in a step that completes a snapshot
\* fetch or handles an 'initial_ohlcv' or 'ohlcv_update' message; a toggle, a
\* trade-poll result and the open, close and error events of the channel
\* leave it unchanged.
C27_StoreFrame ==
  [][ /\ historicalData' # historicalData
        => \/ \E f \in DOMAIN fetches :
                \E k \in ShortSnapshotLens : FetchOk(f, k)
           \/ \E c \in DOMAIN sockets :
                \/ \E k \in ShortSnapshotLens : OnInitialOhlcv(c, k)
                \/ \E t \in ShortUpdateTimestamps : OnOhlcvUpdate(c, t)
                \/ OnOhlcvUpdateNoPayload(c)
      /\ ( \/ ToggleRsi \/ ToggleEma \/ ToggleBb
           \/ \E trades \in TradeLists : TradesLoaded(trades)
           \/ \E c \in DOMAIN sockets : OnOpen(c) \/ OnClose(c) \/ OnFail(c) )
         => historicalData' = historicalData ]_vars

\* The installed snapshot is still the store after a toggle, a trade-poll
\* result and the failure of the channel.
C27_Witness ==
  /\ phase = "mounted"
  /\ historicalData = Snapshot(2)
  /\ rsiEnabled
  /\ botTrades # <<>>
  /\ sockets[1].readyState = "CLOSED"
  /\ error = SocketError

\* The channel wsRef holds is open.
HeldOpen == wsRef # 0 /\ sockets[wsRef].readyState = "OPEN"

\* C28: while the view is mounted, isConnected is true exactly when the
\* channel currently held is open.
C28_ConnectedIffHeldOpen ==
  phase = "mounted" => (isConnected <=> HeldOpen)

\* C29: a candle added or revised by a live update (payload 2) is still in
\* the store after the completion of the snapshot fetch that was started
\* before the update (the only fetch started, at the mount).
C29_LateFetchKeepsUpdates ==
  [][ \A f \in DOMAIN fetches : \A k \in ShortSnapshotLens :
        (FetchOk(f, k) /\ phase = "mounted" /\ Len(fetches) = 1)
          => \A i \in DOMAIN historicalData :
               historicalData[i] = Candle(historicalData[i].timestamp, 2)
                 => \E j \in DOMAIN historicalData' :
                      historicalData'[j] = historicalData[i] ]_vars

\* The intervals that have been created and not cleared.
ActiveTimers == {i \in DOMAIN timers : timers[i]}

\* C30: at most one dashboard polling timer is active at any time, no timer
\* is active right after a successful Stop Bot, and none is active once the
\* component is unmounted.
C30_AtMostOneDashboardTimer ==
  /\ [](Cardinality(ActiveTimers) <= 1)
  /\ [](~selectorMounted => ActiveTimers = {})
  /\ [][StopOk => ActiveTimers' = {}]_vars

====
